---- MODULE Spec2Model ----
(***************************************************************************)
(* Realtime subscription / reconnection core of the Client class           *)
(* (src/unnamed/part_000, Client.realtime and Client.subscribe).           *)
(*                                                                         *)
(* The JavaScript event loop runs every handler to completion, so each     *)
(* handler, timer callback and public call is one atomic action.           *)
(***************************************************************************)
EXTENDS Integers, Sequences, FiniteSets, TLC

(* ---------------------------- bounds ----------------------------------- *)
\* The model is explored in bounded configurations, named by focus, which is
\* chosen at Init and never changes: "dispatch" gives room to frames and deferred
\* callbacks and little to the connection, "connection" gives room to sockets,
\* timers and retries. Spec explores both with every handler and every input.
\* The other values of focus belong to the slices of Spec defined after it, each
\* of which keeps the handlers and inputs of one part of the program:
\* "subscribe", "message", "replace" and "close"; "backoff" belongs to
\* BackoffSpec (one channel, and an attempt counter that is let run through all
\* the tiers of getTimeout) and "call" to CallSpec (the HTTP calls of Client.call).
MaxSubs     == 2   \* subscribe calls made in one behaviour
MaxQueue    == 2   \* deferred callback invocations pending at once (dispatch)
LowQueue    == 0   \*   the same (connection)
MaxSockets  == 3   \* sockets alive at once: the current one and those awaiting
                   \* their close event (connection)
MidSockets  == 2   \*   the same (close)
LowSockets  == 1   \*   the same (dispatch)
MaxTimers   == 2   \* reconnect timers pending at once (connection)
LowTimers   == 1   \*   the same (dispatch)
MaxAttempts == 2   \* cap of reconnectAttempts (connection)
LowAttempts == 1   \*   the same (dispatch)
MaxBackoff  == 101 \* cap of reconnectAttempts in the backoff specification
MaxCalls    == 2   \* requests of Client.call in flight at once (call specification)

(* ------------------------- program constants --------------------------- *)
CONNECTING == 0
OPEN       == 1
CLOSING    == 2
CLOSED     == 3
PolicyViolation == 1008

\* stands for message.data being undefined or null: the frame has no data body
NoBody == -1

Project == "p"

(* ------------------------------ inputs --------------------------------- *)
\* the channels argument of subscribe: a single string or a list of strings
StringArg(c)  == [kind |-> "string", str |-> c, list |-> <<>>]
ListArg(list) == [kind |-> "list", str |-> "", list |-> list]

SubscribeInputs ==
    { StringArg("a") } \cup { ListArg(list) : list \in { <<"a">>, <<"a", "b">>, <<"b", "a">> } }

Missing == <<"missing">>

\* what JSON.parse makes of an inbound frame; "garbage" is a frame that does not parse.
\* code is data.code, or NoBody when the frame has no data body
Frame(t, chs, code, user) == [type |-> t, channels |-> chs, code |-> code, user |-> user]

EventFrames ==
    { Frame("event", chs, 0, FALSE) :
        chs \in { <<>>, <<"b">>, <<"b", "a", "b">>, <<"c">>, Missing } }

Frames ==
    EventFrames
    \cup { Frame("connected", <<>>, 0, u) : u \in BOOLEAN }
    \cup { Frame("connected", <<>>, NoBody, FALSE) }
    \cup { Frame("error", <<>>, c, FALSE) : c \in {PolicyViolation, 1003, NoBody} }
    \cup { Frame("response", <<>>, 0, FALSE), Frame("garbage", <<>>, 0, FALSE) }

\* mutant of Retained: the body of the message is not kept
Retained_TypeOnly(f) == [type |-> f.type, code |-> 0]

\* realtime.lastMessage, as far as it is ever read: message.type and, of an error,
\* message.data.code
Retained(f) == [type |-> f.type, code |-> IF f.type = "error" THEN f.code ELSE 0]

NoMessage == [type |-> "none", code |-> 0]

\* realtime.socket === undefined
NoSocket == [url |-> <<>>, readyState |-> -1]

\* the sockets createSocket has replaced and whose close event is still to come:
\* byUs counts those it called close() on, byPeer those it found CLOSING; live counts
\* the replaced sockets that were left CONNECTING or OPEN
NoRetired == [byUs |-> 0, byPeer |-> 0, live |-> 0]

(* ------------------------------ state ---------------------------------- *)
VARIABLES
    channels,              \* realtime.channels: a Set, kept in insertion order
    subscriptions,         \* realtime.subscriptions: handle -> channel list (the callback is the handle)
    subscriptionsCounter,  \* realtime.subscriptionsCounter
    timeout,               \* realtime.timeout: TRUE while the timer it names is pending
    debounce,              \* number of pending debounce timers (setTimeout of realtime.connect)
    url,                   \* realtime.url
    socket,                \* realtime.socket: the WebSocket object (its url and readyState), or NoSocket
    reconnect,             \* realtime.reconnect
    reconnectAttempts,     \* realtime.reconnectAttempts
    lastMessage,           \* realtime.lastMessage
    retired,               \* replaced WebSocket objects that still have a close event to deliver
    timers,                \* number of pending reconnect timers (setTimeout of the close handler)
    queue,                 \* deferred callback invocations (setTimeout(() => callback(data)))
    closures,              \* handle -> the channelArray captured by the closure subscribe returned
    unsubscribed,          \* history: handles whose returned closure has been invoked
    focus,                 \* the bounded configuration being explored
    storage,               \* the 'cookieFallback' entry of the storage ("" when there is none)
    calls,                 \* the requests of Client.call that await their response
    skipped,               \* history: the last run of createSocket returned on an empty channel set
    calm,                  \* history: a socket has opened while no reconnect timer was
                           \* pending, and no close has started a reconnect timer since
    lastOp                 \* history: the handler that ran last and what it did

vars == << channels, subscriptions, subscriptionsCounter, timeout, debounce, url, socket, reconnect,
           reconnectAttempts, lastMessage, retired, timers, queue, closures, unsubscribed, focus, storage, calls, skipped, calm, lastOp >>

realtimeVars == << channels, subscriptions, subscriptionsCounter, timeout, url, socket,
                   reconnect, reconnectAttempts, lastMessage >>

\* history record; op names the handler, the other fields are set by the handlers that use them
NoFrame == Frame("none", <<>>, 0, FALSE)

\* what a call came to: the response's status (0: none) and how the transport
\* settled, whether call threw, the exception thrown, the value returned
NoException == [message |-> <<>>, code |-> -1, type |-> "none", response |-> <<>>]

NoResult == [status |-> -1, settled |-> "none", threw |-> FALSE,
             exception |-> NoException, value |-> <<>>]

Op(name) == [op |-> name, h |-> -1, again |-> FALSE, frame |-> NoFrame, sent |-> 0,
             sock |-> "none", delay |-> 0, session |-> FALSE, uncaught |-> FALSE,
             arg |-> "none", str |-> "", was |-> 0, inline |-> 0,
             found |-> -1, same |-> FALSE, http |-> NoResult]

QueueLimit   == IF focus \in {"dispatch", "message"} THEN MaxQueue ELSE LowQueue
SocketLimit  == IF focus \in {"connection", "replace"} THEN MaxSockets
                ELSE IF focus = "close" THEN MidSockets
                ELSE LowSockets
TimerLimit   == IF focus = "connection" THEN MaxTimers ELSE LowTimers
AttemptLimit == IF focus \in {"connection", "close"} THEN MaxAttempts
                ELSE IF focus = "backoff" THEN MaxBackoff
                ELSE LowAttempts

(* --------------------------- pure helpers ------------------------------ *)
Range(s) == { s[i] : i \in 1 .. Len(s) }

\* Array.prototype.includes
Includes(list, c) == \E i \in 1 .. Len(list) : list[i] = c

\* mutant of AddAll: only the first channel of the list is added
AddAll_FirstOnly(set, list) ==
    IF list = <<>> \/ Includes(set, Head(list)) THEN set ELSE Append(set, Head(list))

\* Set.prototype.add for each element of the list, in list order
RECURSIVE AddAll(_, _)
AddAll(set, list) ==
    IF list = <<>> THEN set
    ELSE AddAll(IF Includes(set, Head(list)) THEN set ELSE Append(set, Head(list)), Tail(list))

\* the handles of the subscription table in Map iteration (insertion) order
RECURSIVE HandlesFrom(_, _)
HandlesFrom(subs, n) ==
    IF n >= subscriptionsCounter THEN <<>>
    ELSE (IF n \in DOMAIN subs THEN <<n>> ELSE <<>>) \o HandlesFrom(subs, n + 1)

\* mutant of Handles: the table is iterated from the newest subscription to the oldest
Handles_NewestFirst(subs) ==
    [i \in 1 .. Len(HandlesFrom(subs, 0)) |->
        HandlesFrom(subs, 0)[Len(HandlesFrom(subs, 0)) + 1 - i]]

Handles(subs) == HandlesFrom(subs, 0)

\* Array.prototype.some over two channel lists
Overlaps(xs, ys) == \E i \in 1 .. Len(xs) : Includes(ys, xs[i])

\* mutant of ComputeUrl: set in place of append, each channel overwrites the last one
ComputeUrl_SetChannels(chs) ==
    << <<"project", Project>> >> \o
    (IF chs = <<>> THEN <<>> ELSE << <<"channels[]", chs[Len(chs)]>> >>)

\* URLSearchParams: 'project' is set first, then one 'channels[]' pair is appended per
\* channel in Set iteration order; the serialisation is one key=value item per pair
ComputeUrl(chs) ==
    << <<"project", Project>> >> \o [i \in 1 .. Len(chs) |-> <<"channels[]", chs[i]>>]

EmptyUrl == <<>>

\* mutant of getTimeout: <= in place of <, every tier ends one attempt later
getTimeout_Inclusive(n) ==
    IF n <= 5 THEN 1000
    ELSE IF n <= 15 THEN 5000
    ELSE IF n <= 100 THEN 10000
    ELSE 60000

\* realtime.getTimeout
getTimeout(n) ==
    IF n < 5 THEN 1000
    ELSE IF n < 15 THEN 5000
    ELSE IF n < 100 THEN 10000
    ELSE 60000

\* mutant of cleanUp: the 'found' test is dropped, every listed channel is removed
cleanUp_NoFoundCheck(set, subs, list) ==
    SelectSeq(set, LAMBDA c : ~Includes(list, c))

\* mutant of cleanUp: only the first channel of the given list is looked at
cleanUp_FirstOnly(set, subs, list) ==
    SelectSeq(set, LAMBDA c :
        ~(list # <<>> /\ c = Head(list) /\ ~(\E k \in DOMAIN subs : Includes(subs[k], c))))

\* realtime.cleanUp: Set.forEach visits every channel once, deleting as it goes
cleanUp(set, subs, list) ==
    SelectSeq(set, LAMBDA c :
        ~(Includes(list, c) /\ ~(\E k \in DOMAIN subs : Includes(subs[k], c))))

\* onMessage, case 'event': data.channels.some(channel => realtime.channels.has(channel))
isSubscribed(f) == Overlaps(f.channels, channels)

\* mutant of Matches: only the first channel of the event is looked at
Matches_FirstOnly(f, list) == f.channels # <<>> /\ Includes(list, Head(f.channels))

\* onMessage, case 'event': the test applied to each subscription
Matches(f, list) == Overlaps(f.channels, list)

\* mutant of DispatchTargets: no filtering at all, every subscription is called
DispatchTargets_Broadcast(f) == Handles(subscriptions)

\* onMessage, case 'event': the handles whose callback gets a setTimeout, in order
DispatchTargets(f) ==
    IF f.channels = Missing THEN <<>>
    ELSE IF ~isSubscribed(f) THEN <<>>
    ELSE SelectSeq(Handles(subscriptions), LAMBDA k : Matches(f, subscriptions[k]))

\* close handler: the last parsed message is an error with code 1008
Policy == lastMessage.type = "error" /\ lastMessage.code = PolicyViolation

\* close handler: the last parsed message is an error without a data body, reading
\* .code of its data throws a TypeError
NoErrorBody == lastMessage.type = "error" /\ lastMessage.code = NoBody

(* ------------------------------ Init ----------------------------------- *)
Init ==
    /\ channels = <<>>
    /\ subscriptions = << >>
    /\ subscriptionsCounter = 0
    /\ timeout = FALSE
    /\ debounce = 0
    /\ url = EmptyUrl
    /\ socket = NoSocket
    /\ reconnect = TRUE
    /\ reconnectAttempts = 0
    /\ lastMessage = NoMessage
    /\ retired = NoRetired
    /\ timers = 0
    /\ queue = <<>>
    /\ closures = << >>
    /\ unsubscribed = {}
    /\ focus \in {"dispatch", "connection"}
    /\ storage = ""
    /\ calls = <<>>
    /\ skipped = FALSE
    /\ calm = FALSE
    /\ lastOp = Op("init")

(* ------------------------- realtime.connect ---------------------------- *)
\* mutant of connect: the timer is armed only when the channel set has changed
connect_IfChanged ==
    /\ timeout' = (timeout \/ channels' # channels)
    /\ debounce' = IF channels' # channels
                   THEN (IF timeout THEN debounce - 1 ELSE debounce) + 1
                   ELSE debounce

\* mutant of connect: the pending timer is not cleared before the new one is set
connect_NoClear ==
    /\ timeout' = TRUE
    /\ debounce' = debounce + 1

\* clearTimeout(timeout) removes the timer realtime.timeout names when it is still
\* pending; timeout = setTimeout(createSocket, 50) adds one and names it
connect ==
    /\ timeout' = TRUE
    /\ debounce' = (IF timeout THEN debounce - 1 ELSE debounce) + 1

(* ----------------------- realtime.createSocket ------------------------- *)
\* mutant of MustClose: < CLOSED in place of < CLOSING, a CLOSING socket is closed too
MustClose_ClosingToo == socket # NoSocket /\ socket.readyState < CLOSED

\* mutant of MustClose: the socket that is replaced is never closed
MustClose_Never == FALSE

\* the inner if: the current socket is CONNECTING or OPEN and gets close() called on it
MustClose == socket # NoSocket /\ socket.readyState < CLOSING

\* the replaced sockets once the current one has been dealt with: closed by us, kept
\* when the peer is closing it, forgotten when it is CLOSED (no event of it is left)
Retire ==
    IF socket = NoSocket THEN retired
    ELSE IF MustClose THEN [retired EXCEPT !.byUs = @ + 1]
    ELSE IF socket.readyState = CLOSING THEN [retired EXCEPT !.byPeer = @ + 1]
    ELSE IF socket.readyState = CLOSED THEN retired
    ELSE [retired EXCEPT !.live = @ + 1]

\* mutant of OpenSocket: the new socket is stored, the URL it was opened with is not
OpenSocket_KeepsUrl(u) ==
    /\ Retire.byUs + Retire.byPeer + 1 <= SocketLimit
    /\ reconnect' = IF MustClose THEN FALSE ELSE reconnect
    /\ retired' = Retire
    /\ UNCHANGED url
    /\ socket' = [url |-> u, readyState |-> CONNECTING]

\* the body of the outer if: close the old socket when needed, open the new one
OpenSocket(u) ==
    /\ Retire.byUs + Retire.byPeer + 1 <= SocketLimit
    /\ reconnect' = IF MustClose THEN FALSE ELSE reconnect
    /\ retired' = Retire
    /\ url' = u
    /\ socket' = [url |-> u, readyState |-> CONNECTING]

\* mutant of NeedsNewSocket: the URL comparison is missing
NeedsNewSocket_NoUrl(u) ==
    \/ socket = NoSocket
    \/ socket.readyState > OPEN

\* mutant of NeedsNewSocket: >= in place of >, an OPEN socket is replaced too
NeedsNewSocket_OpenToo(u) ==
    \/ u # url
    \/ socket = NoSocket
    \/ socket.readyState >= OPEN

\* mutant of NeedsNewSocket: the readyState of the current socket is not looked at
NeedsNewSocket_UrlOnly(u) ==
    \/ u # url
    \/ socket = NoSocket

\* the condition of the outer if
NeedsNewSocket(u) ==
    \/ u # url
    \/ socket = NoSocket
    \/ socket.readyState > OPEN

\* mutant of createSocket: the early return on an empty channel set is missing
createSocket_NoGuard ==
    IF NeedsNewSocket(ComputeUrl(channels))
    THEN OpenSocket(ComputeUrl(channels))
    ELSE UNCHANGED << url, socket, reconnect, retired >>

createSocket ==
    IF Len(channels) < 1
    THEN UNCHANGED << url, socket, reconnect, retired >>
    ELSE IF NeedsNewSocket(ComputeUrl(channels))
         THEN OpenSocket(ComputeUrl(channels))
         ELSE UNCHANGED << url, socket, reconnect, retired >>

(* --------------------------- Client.subscribe -------------------------- *)
\* mutant of channelArray: the string is not wrapped, there is no element to walk
channelArray_NoWrap(arg) == arg.list

\* typeof channels === 'string' ? [channels] : channels
channelArray(arg) == IF arg.kind = "string" THEN << arg.str >> ELSE arg.list

\* mutant of Subscribe: the record is stored under the smallest handle that is free
\* in the table, the counter moves only when that is the counter itself
Subscribe_ReusesHandle(arg) ==
    LET free == CHOOSE n \in 0 .. subscriptionsCounter :
                    /\ n \notin DOMAIN subscriptions
                    /\ \A m \in 0 .. n - 1 : m \in DOMAIN subscriptions
    IN  /\ subscriptionsCounter < MaxSubs
        /\ channels' = AddAll(channels, channelArray(arg))
        /\ subscriptions' = [k \in (DOMAIN subscriptions) \cup {free} |->
                                IF k = free THEN channelArray(arg) ELSE subscriptions[k]]
        /\ closures' = [k \in (DOMAIN closures) \cup {free} |->
                                IF k = free THEN channelArray(arg) ELSE closures[k]]
        /\ subscriptionsCounter' = IF free = subscriptionsCounter
                                   THEN subscriptionsCounter + 1 ELSE subscriptionsCounter
        /\ connect
        /\ lastOp' = [Op("subscribe") EXCEPT !.h = free, !.arg = arg.kind, !.str = arg.str]
        /\ UNCHANGED << url, socket, reconnect, reconnectAttempts, lastMessage, retired,
                        timers, queue, unsubscribed, focus, storage, calls, skipped, calm >>

\* mutant of Subscribe: createSocket is called at once, no debounce timer is armed
Subscribe_OpensNow(arg) ==
    /\ subscriptionsCounter < MaxSubs
    /\ channels' = AddAll(channels, channelArray(arg))
    /\ subscriptions' = [k \in (DOMAIN subscriptions) \cup {subscriptionsCounter} |->
                            IF k = subscriptionsCounter THEN channelArray(arg)
                            ELSE subscriptions[k]]
    /\ closures' = [k \in (DOMAIN closures) \cup {subscriptionsCounter} |->
                            IF k = subscriptionsCounter THEN channelArray(arg)
                            ELSE closures[k]]
    /\ subscriptionsCounter' = subscriptionsCounter + 1
    /\ createSocket
    /\ lastOp' = [Op("subscribe") EXCEPT !.h = subscriptionsCounter, !.arg = arg.kind,
                                         !.str = arg.str]
    /\ UNCHANGED << timeout, debounce, reconnectAttempts, lastMessage, timers,
                    queue, unsubscribed, focus, storage, calls, skipped, calm >>

Subscribe(arg) ==
    /\ subscriptionsCounter < MaxSubs
    /\ channels' = AddAll(channels, channelArray(arg))
    /\ subscriptions' = [k \in (DOMAIN subscriptions) \cup {subscriptionsCounter} |->
                            IF k = subscriptionsCounter THEN channelArray(arg)
                            ELSE subscriptions[k]]
    /\ closures' = [k \in (DOMAIN closures) \cup {subscriptionsCounter} |->
                            IF k = subscriptionsCounter THEN channelArray(arg)
                            ELSE closures[k]]
    /\ subscriptionsCounter' = subscriptionsCounter + 1
    /\ connect
    /\ lastOp' = [Op("subscribe") EXCEPT !.h = subscriptionsCounter, !.arg = arg.kind,
                                         !.str = arg.str]
    /\ UNCHANGED << url, socket, reconnect, reconnectAttempts, lastMessage, retired, timers,
                    queue, unsubscribed, focus, storage, calls, skipped, calm >>

\* mutant of Deleted: the record is left in the table
Deleted_Kept(h) == subscriptions

\* subscriptions.delete(counter)
Deleted(h) == [k \in (DOMAIN subscriptions) \ {h} |-> subscriptions[k]]

\* mutant of Unsubscribe: the deferred invocations of the handle are cancelled
Unsubscribe_Retracts(h) ==
    /\ h \in DOMAIN closures
    /\ subscriptions' = Deleted(h)
    /\ channels' = cleanUp(channels, Deleted(h), closures[h])
    /\ connect
    /\ unsubscribed' = unsubscribed \cup {h}
    /\ queue' = SelectSeq(queue, LAMBDA e : e.h # h)
    /\ lastOp' = [Op("unsubscribe") EXCEPT !.h = h, !.again = (h \in unsubscribed)]
    /\ UNCHANGED << subscriptionsCounter, url, socket, reconnect, reconnectAttempts, lastMessage,
                    retired, timers, closures, focus, storage, calls, skipped, calm >>

\* the closure returned by subscribe for handle h
Unsubscribe(h) ==
    /\ h \in DOMAIN closures
    /\ subscriptions' = Deleted(h)
    /\ channels' = cleanUp(channels, Deleted(h), closures[h])
    /\ connect
    /\ unsubscribed' = unsubscribed \cup {h}
    /\ lastOp' = [Op("unsubscribe") EXCEPT !.h = h, !.again = (h \in unsubscribed)]
    /\ UNCHANGED << subscriptionsCounter, url, socket, reconnect, reconnectAttempts, lastMessage,
                    retired, timers, queue, closures, focus, storage, calls, skipped, calm >>

(* ------------------------------ timers --------------------------------- *)
\* a debounce timer set by connect fires; the timers have the same delay and fire
\* in the order they were set, so the one realtime.timeout names fires last
DebounceFire ==
    /\ debounce > 0
    /\ debounce' = debounce - 1
    /\ timeout' = (timeout /\ debounce > 1)
    /\ createSocket
    /\ skipped' = (Len(channels) < 1)
    /\ lastOp' = [Op("debounce") EXCEPT !.found = socket.readyState,
                                        !.same = (ComputeUrl(channels) = url)]
    /\ UNCHANGED << channels, subscriptions, subscriptionsCounter, reconnectAttempts, lastMessage,
                    timers, queue, closures, unsubscribed, focus, storage, calls, calm >>

\* mutant of ReconnectFire: the timer callback does not increment the counter
ReconnectFire_NoIncrement ==
    /\ timers > 0
    /\ reconnectAttempts < AttemptLimit
    /\ timers' = timers - 1
    /\ UNCHANGED reconnectAttempts
    /\ createSocket
    /\ skipped' = (Len(channels) < 1)
    /\ lastOp' = [Op("reconnect") EXCEPT !.found = socket.readyState,
                                         !.same = (ComputeUrl(channels) = url)]
    /\ UNCHANGED << channels, subscriptions, subscriptionsCounter, timeout, debounce, lastMessage,
                    queue, closures, unsubscribed, focus, storage, calls, calm >>

\* a reconnect timer set by the close handler fires
ReconnectFire ==
    /\ timers > 0
    /\ reconnectAttempts < AttemptLimit
    /\ timers' = timers - 1
    /\ reconnectAttempts' = reconnectAttempts + 1
    /\ createSocket
    /\ skipped' = (Len(channels) < 1)
    /\ lastOp' = [Op("reconnect") EXCEPT !.found = socket.readyState,
                                         !.same = (ComputeUrl(channels) = url)]
    /\ UNCHANGED << channels, subscriptions, subscriptionsCounter, timeout, debounce, lastMessage,
                    queue, closures, unsubscribed, focus, storage, calls, calm >>

(* --------------------------- socket events ----------------------------- *)
\* mutant of SocketOpen: the open listener leaves the attempt counter alone
SocketOpen_NoReset ==
    /\ socket # NoSocket
    /\ socket.readyState = CONNECTING
    /\ socket' = [socket EXCEPT !.readyState = OPEN]
    /\ UNCHANGED reconnectAttempts
    /\ calm' = (timers = 0)
    /\ lastOp' = [Op("open") EXCEPT !.sock = "current", !.was = reconnectAttempts]
    /\ UNCHANGED << channels, subscriptions, subscriptionsCounter, timeout, debounce, url,
                    reconnect, lastMessage, retired, timers, queue, closures, unsubscribed, focus, storage, calls, skipped >>

\* 'open' listener; only the current socket can be CONNECTING. was: the attempt
\* counter the listener found
SocketOpen ==
    /\ socket # NoSocket
    /\ socket.readyState = CONNECTING
    /\ socket' = [socket EXCEPT !.readyState = OPEN]
    /\ reconnectAttempts' = 0
    /\ calm' = (timers = 0)
    /\ lastOp' = [Op("open") EXCEPT !.sock = "current", !.was = reconnectAttempts]
    /\ UNCHANGED << channels, subscriptions, subscriptionsCounter, timeout, debounce, url,
                    reconnect, lastMessage, retired, timers, queue, closures, unsubscribed, focus, storage, calls, skipped >>

\* the peer starts the closing handshake: readyState becomes CLOSING, no listener runs
SocketClosing ==
    /\ socket # NoSocket
    /\ socket.readyState = OPEN
    /\ socket' = [socket EXCEPT !.readyState = CLOSING]
    /\ lastOp' = [Op("closing") EXCEPT !.sock = "current"]
    /\ UNCHANGED << channels, subscriptions, subscriptionsCounter, timeout, debounce, url,
                    reconnect, reconnectAttempts, lastMessage, retired, timers, queue,
                    closures, unsubscribed, focus, storage, calls, skipped, calm >>

\* mutant of onClose: a close never schedules a reconnect
onClose_NoRetry(which) ==
    /\ reconnect' = TRUE
    /\ UNCHANGED timers
    /\ lastOp' = [Op("close") EXCEPT !.sock = which]

\* mutant of onClose: the last message is not looked at
onClose_IgnoresPolicy(which) ==
    IF reconnect /\ NoErrorBody
    THEN /\ UNCHANGED << reconnect, timers >>
         /\ lastOp' = [Op("close") EXCEPT !.sock = which, !.uncaught = TRUE]
    ELSE IF ~reconnect
    THEN /\ reconnect' = TRUE
         /\ UNCHANGED timers
         /\ lastOp' = [Op("close") EXCEPT !.sock = which]
    ELSE /\ timers < TimerLimit
         /\ timers' = timers + 1
         /\ UNCHANGED reconnect
         /\ lastOp' = [Op("close") EXCEPT !.sock = which,
                                          !.delay = getTimeout(reconnectAttempts)]

\* mutant of onClose: the reconnect flag is not looked at
onClose_IgnoresFlag(which) ==
    IF NoErrorBody
    THEN /\ UNCHANGED << reconnect, timers >>
         /\ lastOp' = [Op("close") EXCEPT !.sock = which, !.uncaught = TRUE]
    ELSE IF Policy
    THEN /\ reconnect' = TRUE
         /\ UNCHANGED timers
         /\ lastOp' = [Op("close") EXCEPT !.sock = which]
    ELSE /\ timers < TimerLimit
         /\ timers' = timers + 1
         /\ UNCHANGED reconnect
         /\ lastOp' = [Op("close") EXCEPT !.sock = which,
                                          !.delay = getTimeout(reconnectAttempts)]

\* mutant of onClose: the suppressed path does not set the flag again
onClose_NoReset(which) ==
    IF reconnect /\ NoErrorBody
    THEN /\ UNCHANGED << reconnect, timers >>
         /\ lastOp' = [Op("close") EXCEPT !.sock = which, !.uncaught = TRUE]
    ELSE IF ~reconnect \/ Policy
    THEN /\ UNCHANGED << reconnect, timers >>
         /\ lastOp' = [Op("close") EXCEPT !.sock = which]
    ELSE /\ timers < TimerLimit
         /\ timers' = timers + 1
         /\ UNCHANGED reconnect
         /\ lastOp' = [Op("close") EXCEPT !.sock = which,
                                          !.delay = getTimeout(reconnectAttempts)]

\* the 'close' listener itself; delay is the timeout handed to setTimeout. The
\* condition is !reconnect || (type === 'error' && data.code === 1008): when the flag
\* is set and the last message is an error without data, the listener throws
onClose(which) ==
    IF reconnect /\ NoErrorBody
    THEN /\ UNCHANGED << reconnect, timers >>
         /\ lastOp' = [Op("close") EXCEPT !.sock = which, !.uncaught = TRUE]
    ELSE IF ~reconnect \/ Policy
    THEN /\ reconnect' = TRUE
         /\ UNCHANGED timers
         /\ lastOp' = [Op("close") EXCEPT !.sock = which]
    ELSE /\ timers < TimerLimit
         /\ timers' = timers + 1
         /\ UNCHANGED reconnect
         /\ lastOp' = [Op("close") EXCEPT !.sock = which,
                                          !.delay = getTimeout(reconnectAttempts)]

\* the connection of a socket is closed (failed handshake, network loss, closing
\* handshake finished): readyState is CLOSED when its 'close' listener runs.
\* which: the current socket, or a replaced one (closed by us / by the peer)
SocketClose(which) ==
    /\ \/ /\ which = "current"
          /\ socket # NoSocket
          /\ socket.readyState < CLOSED
          /\ socket' = [socket EXCEPT !.readyState = CLOSED]
          /\ UNCHANGED retired
       \/ /\ which = "byUs"
          /\ retired.byUs > 0
          /\ retired' = [retired EXCEPT !.byUs = @ - 1]
          /\ UNCHANGED socket
       \/ /\ which = "byPeer"
          /\ retired.byPeer > 0
          /\ retired' = [retired EXCEPT !.byPeer = @ - 1]
          /\ UNCHANGED socket
    /\ onClose(which)
    /\ calm' = (calm /\ timers' = timers)
    /\ UNCHANGED << channels, subscriptions, subscriptionsCounter, timeout, debounce, url,
                    reconnectAttempts, lastMessage, queue, closures, unsubscribed, focus, storage, calls, skipped >>

\* mutant of Authenticates: the user reported by the server is not looked at
Authenticates_AnyUser(f, session) == f.type = "connected" /\ session /\ f.code # NoBody

\* onMessage, case 'connected': session && !messageData.user, where reading .user of
\* a missing data body throws (caught) before anything is sent
Authenticates(f, session) ==
    f.type = "connected" /\ session /\ f.code # NoBody /\ ~f.user

\* mutant of Parses: the text of a frame that does not parse is kept as the message
Parses_Always(f) == TRUE

\* onMessage: JSON.parse(event.data) returns (it throws on a malformed frame)
Parses(f) == f.type # "garbage"

\* mutant of Scheduled: the callbacks are called directly, no task is scheduled
Scheduled_Inline(targets, f) == <<>>

\* onMessage, case 'event': setTimeout(() => subscription.callback(data)) for each
\* matching subscription: the tasks added to the event loop's queue
Scheduled(targets, f) ==
    [i \in 1 .. Len(targets) |-> [h |-> targets[i], channels |-> f.channels]]

\* 'message' listener (realtime.onMessage); frames are delivered by an OPEN socket only,
\* which is the current one. session: a credential is stored for the project.
\* sent counts the frames handed to socket.send, inline the callbacks called before
\* the listener returns
Message(f, session) ==
    /\ socket # NoSocket
    /\ socket.readyState = OPEN
    /\ IF ~Parses(f)
       THEN /\ UNCHANGED << lastMessage, queue >>
            /\ lastOp' = [Op("message") EXCEPT !.frame = f, !.session = session]
       ELSE /\ lastMessage' = Retained(f)
            /\ LET targets == IF f.type = "event" THEN DispatchTargets(f) ELSE <<>>
                   sent == IF Authenticates(f, session) THEN 1 ELSE 0
               IN  /\ Len(queue) + Len(targets) <= QueueLimit
                   /\ queue' = queue \o Scheduled(targets, f)
                   /\ lastOp' = [Op("message") EXCEPT
                                    !.frame = f, !.sent = sent, !.session = session,
                                    !.inline = Len(targets) - Len(Scheduled(targets, f))]
    /\ UNCHANGED << channels, subscriptions, subscriptionsCounter, timeout, debounce, url, socket,
                    reconnect, reconnectAttempts, retired, timers, closures, unsubscribed, focus, storage, calls, skipped, calm >>

\* a deferred callback invocation runs
RunCallback ==
    /\ queue # <<>>
    /\ queue' = Tail(queue)
    /\ lastOp' = [Op("callback") EXCEPT !.h = Head(queue).h]
    /\ UNCHANGED << realtimeVars, debounce, retired, timers, closures, unsubscribed, focus, storage, calls, skipped, calm >>

(* --------------------------- specification ----------------------------- *)
Next ==
    \/ \E arg \in SubscribeInputs : Subscribe(arg)
    \/ \E h \in 0 .. MaxSubs - 1 : Unsubscribe(h)
    \/ DebounceFire
    \/ ReconnectFire
    \/ SocketOpen
    \/ SocketClosing
    \/ \E which \in {"current", "byUs", "byPeer"} : SocketClose(which)
    \/ \E f \in Frames : \E session \in (IF f.type = "connected" THEN BOOLEAN ELSE {TRUE}) :
          Message(f, session)
    \/ RunCallback

Spec == Init /\ [][Next]_vars

\* Timers that are pending fire, and a socket that is closing delivers its close event.
Fairness ==
    /\ WF_vars(DebounceFire)
    /\ WF_vars(ReconnectFire)
    /\ WF_vars(SocketClose("byUs"))
    /\ WF_vars(SocketClose("byPeer"))

LiveSpec == Init /\ [][Next]_vars /\ Fairness

\* The retry loop on its own: one channel is subscribed, sockets fail or open, and
\* the attempt counter runs up to MaxBackoff.
BackoffInit ==
    /\ channels = <<>>
    /\ subscriptions = << >>
    /\ subscriptionsCounter = 0
    /\ timeout = FALSE
    /\ debounce = 0
    /\ url = EmptyUrl
    /\ socket = NoSocket
    /\ reconnect = TRUE
    /\ reconnectAttempts = 0
    /\ lastMessage = NoMessage
    /\ retired = NoRetired
    /\ timers = 0
    /\ queue = <<>>
    /\ closures = << >>
    /\ unsubscribed = {}
    /\ focus = "backoff"
    /\ storage = ""
    /\ calls = <<>>
    /\ skipped = FALSE
    /\ calm = FALSE
    /\ lastOp = Op("init")

BackoffNext ==
    \/ Subscribe(StringArg("a"))
    \/ DebounceFire
    \/ ReconnectFire
    \/ SocketOpen
    \/ SocketClose("current")

BackoffSpec == BackoffInit /\ [][BackoffNext]_vars

(* ------------------------------ slices --------------------------------- *)
\* Each slice is Spec restricted to some handlers and inputs, from the state the
\* constructor leaves: a behaviour of a slice is a behaviour of the program in
\* which the other events do not happen.

\* the state after construction, in configuration f
Configured(f) ==
    /\ channels = <<>>
    /\ subscriptions = << >>
    /\ subscriptionsCounter = 0
    /\ timeout = FALSE
    /\ debounce = 0
    /\ url = EmptyUrl
    /\ socket = NoSocket
    /\ reconnect = TRUE
    /\ reconnectAttempts = 0
    /\ lastMessage = NoMessage
    /\ retired = NoRetired
    /\ timers = 0
    /\ queue = <<>>
    /\ closures = << >>
    /\ unsubscribed = {}
    /\ focus = f
    /\ storage = ""
    /\ calls = <<>>
    /\ skipped = FALSE
    /\ calm = FALSE
    /\ lastOp = Op("init")

\* subscribe and the closures it returns, the debounce timer and a socket that
\* opens: no frame arrives and no socket closes on its own
SubscribeNext ==
    \/ \E arg \in SubscribeInputs : Subscribe(arg)
    \/ \E h \in 0 .. MaxSubs - 1 : Unsubscribe(h)
    \/ DebounceFire
    \/ SocketOpen

SubscribeSpec == Configured("subscribe") /\ [][SubscribeNext]_vars

\* the subscriptions the dispatch of events is followed on
DispatchInputs == { StringArg("a"), ListArg(<<"a", "b">>) }

\* event frames and the callbacks they defer, on a socket that stays open
DispatchNext ==
    \/ \E arg \in DispatchInputs : Subscribe(arg)
    \/ \E h \in 0 .. MaxSubs - 1 : Unsubscribe(h)
    \/ DebounceFire
    \/ SocketOpen
    \/ \E f \in EventFrames : Message(f, TRUE)
    \/ RunCallback

DispatchSpec == Configured("dispatch") /\ [][DispatchNext]_vars

\* every kind of frame on the socket of one channel, which may fail and be retried
MessageNext ==
    \/ Subscribe(StringArg("a"))
    \/ DebounceFire
    \/ ReconnectFire
    \/ SocketOpen
    \/ SocketClose("current")
    \/ \E f \in Frames : \E session \in (IF f.type = "connected" THEN BOOLEAN ELSE {TRUE}) :
          Message(f, session)
    \/ RunCallback

MessageSpec == Configured("message") /\ [][MessageNext]_vars

\* the sockets createSocket opens, reuses and replaces as the channel set changes,
\* and their close events: no frame arrives
ReplaceNext ==
    \/ \E arg \in SubscribeInputs : Subscribe(arg)
    \/ \E h \in 0 .. MaxSubs - 1 : Unsubscribe(h)
    \/ DebounceFire
    \/ ReconnectFire
    \/ SocketOpen
    \/ SocketClosing
    \/ \E which \in {"current", "byUs", "byPeer"} : SocketClose(which)

ReplaceSpec == Configured("replace") /\ [][ReplaceNext]_vars

\* the frames the close listener looks back at: a greeting, a policy violation, and
\* an error without a data body
CloseFrames ==
    { Frame("connected", <<>>, 0, FALSE) }
    \cup { Frame("error", <<>>, c, FALSE) : c \in {PolicyViolation, NoBody} }

\* the close listener and the reconnect timer, with sockets being replaced and
\* error frames arriving: no event is dispatched
CloseNext ==
    \/ \E arg \in DispatchInputs : Subscribe(arg)
    \/ \E h \in 0 .. MaxSubs - 1 : Unsubscribe(h)
    \/ DebounceFire
    \/ ReconnectFire
    \/ SocketOpen
    \/ SocketClosing
    \/ \E which \in {"current", "byUs", "byPeer"} : SocketClose(which)
    \/ \E f \in CloseFrames : Message(f, TRUE)

CloseSpec == Configured("close") /\ [][CloseNext]_vars

\* CloseSpec with timers that fire and close events that are delivered
CloseLiveSpec == Configured("close") /\ [][CloseNext]_vars /\ Fairness

(* ---------------------------- Client.call ------------------------------ *)
OkStatus == 200

FailingStatuses == {404, 500}

\* method.toUpperCase()
toUpperCase(method) ==
    IF method = "get" THEN "GET" ELSE IF method = "post" THEN "POST" ELSE method

\* the decoded body of a response with status s, and the error type tag the body
\* of a failing response carries
Data(s) == << "body", s >>

ErrorType(s) == IF s = 404 THEN "not_found" ELSE "server_error"

\* what the transport makes of a request. The library settles the promise either
\* way: resolved with a response (of whatever status, with or without an
\* X-Fallback-Cookies header), or rejected with an error that has a message; a
\* rejection has the status of the response, or 0 when there was none
Outcomes ==
    { [settled |-> "resolved", status |-> s, cookie |-> c] :
        s \in {OkStatus} \cup FailingStatuses, c \in {"", "c1", "c2"} }
    \cup { [settled |-> "rejected", status |-> s, cookie |-> ""] :
             s \in {0} \cup FailingStatuses }

\* the message of the error a rejected request gives
ErrorMessage(out) == << "failed", out.status >>

\* class AppwriteException: the constructor stores its four arguments
AppwriteException(message, code, type, response) ==
    [message |-> message, code |-> code, type |-> type, response |-> response]

\* the catch clause of call: nothing in the try block throws an AppwriteException,
\* so the error is wrapped with the constructor's defaults for code, type, response
Wrapped(out) == AppwriteException(ErrorMessage(out), 0, "", "")

\* Client.handleReponse: the storage entry after it (written when the response has
\* the X-Fallback-Cookies header) and the value it returns (response.data)
handleReponseStorage(out) == IF out.cookie # "" THEN out.cookie ELSE storage

handleReponse(out) == Data(out.status)

\* call makes a request for GET, and otherwise for the two content types of the switch
SendsRequest(method, ctype) ==
    \/ toUpperCase(method) = "GET"
    \/ ctype \in {"application/json", "multipart/form-data"}

\* Client.call up to its await: the request is handed to the transport (un.get for
\* GET, un.post otherwise) with the stored cookies in X-Fallback-Cookies; for any
\* other method and content type no request is made and undefined is returned
call(method, ctype) ==
    /\ IF SendsRequest(method, ctype)
       THEN /\ Len(calls) < MaxCalls
            /\ calls' = Append(calls,
                   [verb |-> IF toUpperCase(method) = "GET" THEN "GET" ELSE "POST",
                    cookies |-> storage])
            /\ lastOp' = [Op("call") EXCEPT !.str = toUpperCase(method), !.sent = 1]
       ELSE /\ UNCHANGED calls
            /\ lastOp' = [Op("call") EXCEPT !.str = toUpperCase(method), !.sent = 0,
                               !.http = [NoResult EXCEPT !.settled = "returned"]]
    /\ UNCHANGED << realtimeVars, debounce, retired, timers, queue, closures, unsubscribed,
                    focus, storage, skipped, calm >>

\* Client.call after its await: the promise of request i has settled; a response
\* goes through handleReponse and its data is returned, an error is caught and
\* thrown again as an AppwriteException
Settle(i, out) ==
    /\ i \in 1 .. Len(calls)
    /\ calls' = [j \in 1 .. Len(calls) - 1 |-> IF j < i THEN calls[j] ELSE calls[j + 1]]
    /\ IF out.settled = "resolved"
       THEN /\ storage' = handleReponseStorage(out)
            /\ lastOp' = [Op("settle") EXCEPT
                             !.str = calls[i].verb,
                             !.http = [status |-> out.status, settled |-> out.settled,
                                       threw |-> FALSE, exception |-> NoException,
                                       value |-> handleReponse(out)]]
       ELSE /\ UNCHANGED storage
            /\ lastOp' = [Op("settle") EXCEPT
                             !.str = calls[i].verb,
                             !.http = [status |-> out.status, settled |-> out.settled,
                                       threw |-> TRUE, exception |-> Wrapped(out),
                                       value |-> <<>>]]
    /\ UNCHANGED << realtimeVars, debounce, retired, timers, queue, closures, unsubscribed,
                    focus, skipped, calm >>

Methods == {"get", "GET", "POST", "DELETE"}

ContentTypes == {"application/json", "multipart/form-data", "none"}

CallInit ==
    /\ channels = <<>>
    /\ subscriptions = << >>
    /\ subscriptionsCounter = 0
    /\ timeout = FALSE
    /\ debounce = 0
    /\ url = EmptyUrl
    /\ socket = NoSocket
    /\ reconnect = TRUE
    /\ reconnectAttempts = 0
    /\ lastMessage = NoMessage
    /\ retired = NoRetired
    /\ timers = 0
    /\ queue = <<>>
    /\ closures = << >>
    /\ unsubscribed = {}
    /\ focus = "call"
    /\ storage = ""
    /\ calls = <<>>
    /\ skipped = FALSE
    /\ calm = FALSE
    /\ lastOp = Op("init")

CallNext ==
    \/ \E method \in Methods, ctype \in ContentTypes : call(method, ctype)
    \/ \E i \in 1 .. MaxCalls, out \in Outcomes : Settle(i, out)

CallSpec == CallInit /\ [][CallNext]_vars

(* ------------------------------ claims --------------------------------- *)
\* the channels listed by the subscriptions currently in the table
Listed(subs) == UNION { Range(subs[k]) : k \in DOMAIN subs }

\* the deferred invocations a step has added to the queue
Added == SubSeq(queue', Len(queue) + 1, Len(queue'))

\* C1: in every reachable state the channel set holds exactly the channels that the
\* subscriptions in the table list: none of them is missing, none is there that no
\* live subscription lists (and, being a Set, it holds each channel once).
C1_ChannelSetIsUnion ==
    /\ Range(channels) = Listed(subscriptions)
    /\ \A i, j \in 1 .. Len(channels) : channels[i] = channels[j] => i = j

\* C1 witness: subscriptions 0 = [a, b] and 1 = [a] were made, 0 was unsubscribed:
\* b has left the channel set, the shared channel a has stayed.
C1_Witness ==
    /\ lastOp.op = "unsubscribe"
    /\ lastOp.h = 0
    /\ closures[0] = <<"a", "b">>
    /\ DOMAIN subscriptions = {1}
    /\ subscriptions[1] = <<"a">>
    /\ channels = <<"a">>

\* C2: when an 'event' frame naming at least one channel of the channel set is
\* processed, the callbacks scheduled are those of exactly the subscriptions whose
\* list shares a channel with the event's list, each once, each with the event.
C2_DispatchExact ==
    [][ ( /\ lastOp'.op = "message"
          /\ lastOp'.frame.type = "event"
          /\ lastOp'.frame.channels # Missing
          /\ Range(lastOp'.frame.channels) \cap Range(channels) # {} )
        => ( /\ { Added[i].h : i \in 1 .. Len(Added) } =
                  { k \in DOMAIN subscriptions :
                      Range(subscriptions[k]) \cap Range(lastOp'.frame.channels) # {} }
             /\ \A i, j \in 1 .. Len(Added) : Added[i].h = Added[j].h => i = j
             /\ \A i \in 1 .. Len(Added) : Added[i].channels = lastOp'.frame.channels
             /\ queue = SubSeq(queue', 1, Len(queue)) ) ]_vars

\* C2 witness: with subscriptions [a] and [a, b] live, the event on [b, a, b] has just
\* been processed and each of the two callbacks is scheduled once.
C2_Witness ==
    /\ lastOp.op = "message"
    /\ lastOp.frame.channels = <<"b", "a", "b">>
    /\ DOMAIN subscriptions = {0, 1}
    /\ Len(queue) = 2
    /\ queue[1].h = 0
    /\ queue[2].h = 1

\* C3: an 'event' frame whose channel list shares no channel with the channel set
\* (an empty list and an empty channel set included) schedules no callback.
C3_DisjointEventDropped ==
    [][ ( /\ lastOp'.op = "message"
          /\ lastOp'.frame.type = "event"
          /\ lastOp'.frame.channels # Missing
          /\ Range(lastOp'.frame.channels) \cap Range(channels) = {} )
        => queue' = queue ]_vars

\* C3 witness: the event on [c] has just been processed while subscriptions were live
\* and a callback of an earlier event was still pending; nothing was added.
C3_Witness ==
    /\ lastOp.op = "message"
    /\ lastOp.frame.type = "event"
    /\ lastOp.frame.channels = <<"c">>
    /\ DOMAIN subscriptions = {0, 1}
    /\ Len(queue) = 1

C5_UnsubscribeIdempotent ==
    [][ (lastOp'.op = "unsubscribe" /\ lastOp'.again)
        => (subscriptions' = subscriptions /\ channels' = channels) ]_vars

\* C5 witness: the closure of subscription 0 = [a, b] has just been invoked again
\* while subscription 1, made in between, lists both of its channels.
C5_Witness ==
    /\ lastOp.op = "unsubscribe"
    /\ lastOp.again
    /\ lastOp.h = 0
    /\ closures[0] = <<"a", "b">>
    /\ DOMAIN subscriptions = {1}
    /\ subscriptions[1] = <<"b", "a">>
    /\ channels = <<"b", "a">>

\* createSocket has just been run, by the debounce timer or by a reconnect timer
RanCreateSocket == lastOp'.op \in {"debounce", "reconnect"}

\* what a timer callback does to the attempt counter before it calls createSocket
OwnIncrement == IF lastOp'.op = "reconnect" THEN 1 ELSE 0

\* C6 as claimed: a second invocation of a closure changes nothing at all, the
\* pending debounced connection attempt included.
C6_SecondCallChangesNothing ==
    [][ (lastOp'.op = "unsubscribe" /\ lastOp'.again)
        => UNCHANGED << subscriptions, channels, timeout, socket, url, reconnect,
                        reconnectAttempts >> ]_vars

\* C6 as amended: a second invocation of a closure leaves the subscription table, the
\* channel set, the socket, the URL, the reconnect flag and the attempt counter as
\* they are, and re-arms the debounce timer: an attempt is pending after it.
C6_SecondCallOnlyRearms ==
    [][ (lastOp'.op = "unsubscribe" /\ lastOp'.again)
        => ( /\ UNCHANGED << subscriptions, channels, socket, url, reconnect,
                             reconnectAttempts, retired, timers, lastMessage, queue >>
             /\ timeout' ) ]_vars

\* C6 witness: a closure has just been invoked again after the debounce timer of its
\* first invocation had fired; a new attempt is pending.
C6_Witness ==
    /\ lastOp.op = "unsubscribe"
    /\ lastOp.again
    /\ timeout
    /\ socket # NoSocket
    /\ socket.readyState = CLOSED

C8_UrlChangeAlwaysReconnects ==
    [][ (lastOp'.op = "debounce" /\ socket # NoSocket /\ ComputeUrl(channels) # url)
        => ( /\ socket'.url = ComputeUrl(channels)
             /\ socket'.readyState = CONNECTING ) ]_vars

\* C8 as amended: whenever the debounce timer fires on a non-empty channel set whose
\* computed URL differs from the URL of the current socket, the current socket becomes
\* one just opened with the computed URL and the former one has been closed (it is
\* CLOSING) unless it was CLOSING or CLOSED already; on an empty channel set the
\* socket is left as it is.
C8_UrlChangeReconnectsUnlessEmpty ==
    [][ /\ ( /\ lastOp'.op = "debounce"
             /\ socket # NoSocket
             /\ channels # <<>>
             /\ ComputeUrl(channels) # url )
           => ( /\ socket' = [url |-> ComputeUrl(channels), readyState |-> CONNECTING]
                /\ url' = ComputeUrl(channels)
                /\ retired'.byUs = retired.byUs + (IF socket.readyState < CLOSING THEN 1 ELSE 0)
                /\ retired'.byPeer = retired.byPeer + (IF socket.readyState = CLOSING THEN 1 ELSE 0) )
        /\ (lastOp'.op = "debounce" /\ channels = <<>>) => socket' = socket ]_vars

\* C8 witness: the debounce timer has fired after the channel set changed under an
\* open or connecting socket: that socket is closing, a new one is connecting.
C8_Witness ==
    /\ lastOp.op = "debounce"
    /\ retired.byUs > 0
    /\ ~reconnect
    /\ socket.readyState = CONNECTING
    /\ socket.url = ComputeUrl(channels)

\* C9: createSocket run on a non-empty channel set whose URL is the stored one, with
\* the current socket CONNECTING or OPEN, opens and closes nothing and leaves socket,
\* URL and reconnect flag alone (the attempt counter moves only by the timer callback's
\* own increment); this for the debounce timer and for a reconnect timer.
C9_ReuseWhenUnchanged ==
    [][ ( /\ RanCreateSocket
          /\ channels # <<>>
          /\ ComputeUrl(channels) = url
          /\ socket # NoSocket
          /\ socket.readyState <= OPEN )
        => ( /\ UNCHANGED << socket, url, reconnect, retired >>
             /\ reconnectAttempts' = reconnectAttempts + OwnIncrement
             /\ timers' <= timers ) ]_vars

\* C9 witness: a reconnect timer has fired while the current socket, opened in the
\* meantime with the same URL, was open; the socket is still the open one.
C9_Witness ==
    /\ lastOp.op = "reconnect"
    /\ channels # <<>>
    /\ ComputeUrl(channels) = url
    /\ socket # NoSocket
    /\ socket.readyState = OPEN
    /\ reconnectAttempts = 1

\* the current socket has closed while channels are subscribed and the last message
\* is no policy violation
ClosedWhileSubscribed ==
    /\ socket # NoSocket
    /\ socket.readyState = CLOSED
    /\ channels # <<>>
    /\ ~Policy

\* C10: with timers firing and close events delivered, a close of the current socket
\* while channels are subscribed and no policy violation was received is followed by
\* a new socket being opened, unless the channel set empties or a policy violation
\* arrives first (or the model's cap of the attempt counter is reached).
C10_RetryNeverGivesUp ==
    ClosedWhileSubscribed ~>
        \/ (socket # NoSocket /\ socket.readyState <= OPEN)
        \/ channels = <<>>
        \/ Policy
        \/ reconnectAttempts >= AttemptLimit

\* C10 witness: a socket opened by a reconnect timer after a failure has failed too,
\* and a further socket has been opened by the next reconnect timer.
C10_Witness ==
    /\ lastOp.op = "reconnect"
    /\ reconnectAttempts = 2
    /\ socket # NoSocket
    /\ socket.readyState = CONNECTING
    /\ channels # <<>>
    /\ ~Policy

C13_DelayIsFlatTier ==
    (lastOp.op = "close" /\ lastOp.delay # 0)
    => LET n == reconnectAttempts
           d == lastOp.delay
       IN  /\ n >= 0
           /\ (n <= 4) => d = 1000
           /\ (5 <= n /\ n <= 14) => d = 5000
           /\ (15 <= n /\ n <= 99) => d = 10000
           /\ (n >= 100) => d = 60000
           /\ d <= 60000
           /\ \A m \in 0 .. n : getTimeout(m) <= d

\* C13 witness: a socket has closed after a hundred reconnect timers had fired
\* without a socket opening in between; the delay is the last tier.
C13_Witness ==
    /\ lastOp.op = "close"
    /\ reconnectAttempts = 100
    /\ lastOp.delay = 60000
    /\ timers = 1

\* C14: a 'connected' message sends exactly one authentication frame when a session
\* credential is stored for the project and the message body reports no user; it
\* sends none when the body reports a user or no credential is stored (nor when the
\* message has no body at all); no other message kind and no other handler sends a
\* frame.
C14_AuthenticationOnConnect ==
    LET f == lastOp.frame
    IN  /\ (lastOp.op = "message" /\ f.type = "connected" /\ f.code # NoBody)
           => ( /\ (lastOp.session /\ ~f.user) => lastOp.sent = 1
                /\ (f.user \/ ~lastOp.session) => lastOp.sent = 0 )
        /\ (lastOp.op = "message" /\ f.type = "connected" /\ f.code = NoBody)
           => lastOp.sent = 0
        /\ (lastOp.op = "message" /\ f.type # "connected") => lastOp.sent = 0
        /\ lastOp.op # "message" => lastOp.sent = 0

\* C14 witness: a 'connected' message reporting no user has been processed on the
\* open socket while a credential was stored; one frame was sent.
C14_Witness ==
    /\ lastOp.op = "message"
    /\ lastOp.frame.type = "connected"
    /\ ~lastOp.frame.user
    /\ lastOp.session
    /\ lastOp.sent = 1
    /\ socket.readyState = OPEN

\* C15: a frame that fails to parse raises nothing out of the message handler and
\* leaves the retained last message, the channel set, the subscription table, the
\* socket, the URL, the reconnect flag and the attempt counter as they are; it
\* schedules no callback and sends nothing.
C15_MalformedFrameChangesNothing ==
    [][ (lastOp'.op = "message" /\ lastOp'.frame.type = "garbage")
        => ( /\ UNCHANGED << lastMessage, channels, subscriptions, socket, url, reconnect,
                             reconnectAttempts, queue, timers, timeout >>
             /\ ~lastOp'.uncaught
             /\ lastOp'.sent = 0 ) ]_vars

\* C15 witness: a malformed frame has been processed after an event was dispatched
\* and an error with code 1008 was received: the error is still the last message and
\* the callback is still pending.
C15_Witness ==
    /\ lastOp.op = "message"
    /\ lastOp.frame.type = "garbage"
    /\ Policy
    /\ Len(queue) = 1

\* C16: no open, message or close handler ever terminates with an uncaught exception.
C16_NoUncaughtException == ~lastOp.uncaught

\* C17: invoking a closure cancels no deferred invocation: the pending invocations
\* are the same before and after, and each is run in its turn whether or not its
\* subscription is still in the table.
C17_ScheduledCallbackNotRetracted ==
    [][ /\ lastOp'.op = "unsubscribe" => queue' = queue
        /\ (queue # <<>> /\ queue' # queue /\ Len(queue') < Len(queue))
           => (lastOp'.op = "callback" /\ lastOp'.h = Head(queue).h /\ queue' = Tail(queue)) ]_vars

\* C17 witness: the callback of subscription 0 has just run although the closure of
\* subscription 0 had been invoked and the table no longer holds it.
C17_Witness ==
    /\ lastOp.op = "callback"
    /\ lastOp.h = 0
    /\ 0 \in unsubscribed
    /\ 0 \notin DOMAIN subscriptions

\* the positions of the query parameters named key in a URL
Params(u, key) == { i \in 1 .. Len(u) : u[i][1] = key }

\* C18: whenever createSocket has run on a non-empty channel set, the URL of the
\* connection has one 'project' parameter, the configured project, and otherwise
\* 'channels[]' parameters only, whose values are exactly the channels of the set,
\* each once; so two channel sets holding the same channels, in whatever order they
\* were inserted, give the same project and the same set of channel parameters.
C18_UrlParamsAreTheChannelSet ==
    (lastOp.op \in {"debounce", "reconnect"} /\ channels # <<>>)
    => ( /\ socket # NoSocket
         /\ socket.url = url
         /\ Cardinality(Params(url, "project")) = 1
         /\ \A i \in Params(url, "project") : url[i][2] = Project
         /\ Params(url, "project") \cup Params(url, "channels[]") = 1 .. Len(url)
         /\ { url[i][2] : i \in Params(url, "channels[]") } = Range(channels)
         /\ Cardinality(Params(url, "channels[]")) = Cardinality(Range(channels)) )

\* C18 witness: the channel set {a, b} was built as b, a by subscription 0, emptied
\* by its closure and built again as a, b by subscription 1; the debounce timer has
\* fired and the connection is to the URL of a, b.
C18_Witness ==
    /\ lastOp.op = "debounce"
    /\ channels = <<"a", "b">>
    /\ 0 \in unsubscribed
    /\ closures[0] = <<"b", "a">>
    /\ retired.byUs = 1
    /\ socket.url = ComputeUrl(<<"a", "b">>)

\* the subscription table with list stored under handle h
WithSubscription(subs, h, list) ==
    [k \in (DOMAIN subs) \cup {h} |-> IF k = h THEN list ELSE subs[k]]

\* C19: subscribe called with the single string c does to the channel set, the
\* subscription table, the counter and the debounce timer what subscribe called
\* with the list [c] does, and the closure it returns holds the list [c], as the
\* closure of the list call does; nothing else changes.
C19_StringIsOneElementList ==
    [][ (lastOp'.op = "subscribe" /\ lastOp'.arg = "string")
        => LET c == lastOp'.str
               h == subscriptionsCounter
           IN  /\ lastOp'.h = h
               /\ channels' = AddAll(channels, <<c>>)
               /\ subscriptions' = WithSubscription(subscriptions, h, <<c>>)
               /\ closures' = WithSubscription(closures, h, <<c>>)
               /\ subscriptionsCounter' = h + 1
               /\ timeout'
               /\ UNCHANGED << url, socket, reconnect, reconnectAttempts, lastMessage,
                               retired, timers, queue, unsubscribed >> ]_vars

\* C19 witness: subscribe was called with the string a while subscription 0 listed
\* b and a; subscription 1 lists a alone and the channel set is as it was.
C19_Witness ==
    /\ lastOp.op = "subscribe"
    /\ lastOp.arg = "string"
    /\ lastOp.str = "a"
    /\ DOMAIN subscriptions = {0, 1}
    /\ subscriptions[0] = <<"b", "a">>
    /\ subscriptions[1] = <<"a">>
    /\ closures[1] = <<"a">>
    /\ channels = <<"b", "a">>
    /\ timeout

\* C20: at most one debounce timer is pending at any time; every subscribe and every
\* closure invocation leaves exactly one pending, whatever was pending before, so a
\* burst of calls leaves one; only these calls set such a timer; and when it fires
\* none is left, createSocket has run once on the channel set as the last call left
\* it: on subscribed channels the connection is to the URL of that channel set.
C20_BurstCoalesced ==
    [][ /\ debounce' <= 1
        /\ lastOp'.op \in {"subscribe", "unsubscribe"} => (debounce' = 1 /\ timeout')
        /\ debounce' > debounce => lastOp'.op \in {"subscribe", "unsubscribe"}
        /\ lastOp'.op = "debounce"
           => ( /\ debounce = 1
                /\ debounce' = 0
                /\ ~timeout'
                /\ channels' = channels
                /\ reconnectAttempts' = reconnectAttempts
                /\ channels # <<>>
                   => (socket' # NoSocket /\ socket'.url = ComputeUrl(channels)
                       /\ url' = ComputeUrl(channels)) ) ]_vars

\* C20 witness: subscribe was called twice, for a and for a, b, and the debounce
\* timer has fired for the first time only after the second call: the first socket
\* of the connection is opened with the URL of a, b.
C20_Witness ==
    /\ lastOp.op = "debounce"
    /\ subscriptionsCounter = 2
    /\ unsubscribed = {}
    /\ closures[0] = <<"a">>
    /\ closures[1] = <<"a", "b">>
    /\ socket # NoSocket
    /\ socket.readyState = CONNECTING
    /\ socket.url = ComputeUrl(<<"a", "b">>)
    /\ retired = NoRetired
    /\ timers = 0
    /\ reconnectAttempts = 0
    /\ lastMessage = NoMessage
    /\ debounce = 0

\* C21: createSocket run on a non-empty channel set opens a new socket exactly when
\* the computed URL differs from the stored one, or there is no socket, or the
\* current socket is CLOSING or CLOSED. When it opens one and the previous socket is
\* CONNECTING or OPEN, the reconnect flag is cleared and that socket is closed; when
\* the previous socket is CLOSING or CLOSED (or there is none) it is not closed and
\* the flag is left as it is.
C21_OpensExactlyWhenNeeded ==
    [][ (RanCreateSocket /\ channels # <<>>)
        => LET u == ComputeUrl(channels)
               needed == \/ u # url
                         \/ socket = NoSocket
                         \/ socket.readyState \in {CLOSING, CLOSED}
           IN  /\ needed
                  => ( /\ socket' = [url |-> u, readyState |-> CONNECTING]
                       /\ url' = u
                       /\ (socket # NoSocket /\ socket.readyState \in {CONNECTING, OPEN})
                          => ( /\ ~reconnect'
                               /\ retired' = [retired EXCEPT !.byUs = @ + 1] )
                       /\ (socket = NoSocket \/ socket.readyState \in {CLOSING, CLOSED})
                          => ( /\ reconnect' = reconnect
                               /\ retired'.byUs = retired.byUs ) )
               /\ ~needed => UNCHANGED << socket, url, reconnect, retired >> ]_vars

\* C21 witness: the debounce timer has fired while the current socket was CLOSING
\* (the peer had started to close it): a new socket is connecting, the old one was
\* not closed again and the reconnect flag is still set.
C21_Witness ==
    /\ lastOp.op = "debounce"
    /\ retired = [byUs |-> 0, byPeer |-> 1, live |-> 0]
    /\ reconnect
    /\ socket # NoSocket
    /\ socket.readyState = CONNECTING
    /\ timers = 0

\* C22: whenever a close listener finds the reconnect flag cleared (and so schedules
\* no reconnect), the socket that closed is one createSocket had called close() on.
C22_SuppressionConsumedByReplacedSocket ==
    [][ (lastOp'.op = "close" /\ ~reconnect) => lastOp'.sock = "byUs" ]_vars

\* C23: the close event of a socket createSocket had called close() on never starts
\* a reconnect timer.
C23_ReplacedSocketNeverRetried ==
    [][ (lastOp'.op = "close" /\ lastOp'.sock = "byUs") => timers' = timers ]_vars

\* C24: after every close listener the reconnect flag is set, whichever path it
\* took; the flag is cleared only by createSocket calling close() on the CONNECTING
\* or OPEN socket it replaces, and it is set again by the next close event and by
\* nothing else; so while it is cleared, a socket closed by createSocket still has
\* its close event to deliver.
C24_SuppressionIsOneShot ==
    [][ /\ lastOp'.op = "close" => reconnect'
        /\ (reconnect /\ ~reconnect')
           => ( /\ RanCreateSocket
                /\ socket # NoSocket
                /\ socket.readyState \in {CONNECTING, OPEN}
                /\ retired'.byUs = retired.byUs + 1 )
        /\ (~reconnect /\ reconnect') => lastOp'.op = "close"
        /\ (~reconnect /\ lastOp'.op # "close") => ~reconnect'
        /\ ~reconnect' => retired'.byUs > 0 ]_vars

\* C24 witness: the close event of the socket createSocket had replaced has been
\* delivered while the flag was cleared: the flag is set again, no timer was started
\* and the replacement is still connecting.
C24_Witness ==
    /\ lastOp.op = "close"
    /\ lastOp.sock = "byUs"
    /\ reconnect
    /\ timers = 0
    /\ retired = NoRetired
    /\ socket # NoSocket
    /\ socket.readyState = CONNECTING
    /\ reconnectAttempts = 0

\* C25 as claimed: a close that starts a reconnect timer has incremented the attempt
\* counter when it returns, so that the counter is one higher during the delay.
C25_CounterIncrementedAtClose ==
    [][ (lastOp'.op = "close" /\ timers' = timers + 1)
        => reconnectAttempts' = reconnectAttempts + 1 ]_vars

\* C25 as amended: a close that starts a reconnect timer computes the delay from the
\* attempt counter and leaves the counter as it is; the counter is incremented, by
\* one, only when a reconnect timer fires, in the step that runs createSocket.
C25_CounterIncrementedWhenTimerFires ==
    [][ /\ (lastOp'.op = "close" /\ timers' = timers + 1)
           => ( /\ reconnectAttempts' = reconnectAttempts
                /\ lastOp'.delay = getTimeout(reconnectAttempts) )
        /\ lastOp'.op = "reconnect"
           => ( /\ reconnectAttempts' = reconnectAttempts + 1
                /\ timers' = timers - 1 )
        /\ reconnectAttempts' > reconnectAttempts => lastOp'.op = "reconnect" ]_vars

\* C25 witness: the open socket has closed after a 'connected' message and a timer
\* is pending: during the delay the counter is still zero.
C25_Witness ==
    /\ lastOp.op = "close"
    /\ lastOp.sock = "current"
    /\ lastOp.delay = 1000
    /\ lastMessage.type = "connected"
    /\ timers = 1
    /\ reconnectAttempts = 0

\* C26: every open event sets the attempt counter to zero; the counter is changed by
\* nothing but this reset and the increment of a firing reconnect timer; so from an
\* open event that found no reconnect timer pending until the next close that
\* starts one the counter is zero, and that close computes the delay of 1000.
C26_OpenResetsCounter ==
    [][ /\ lastOp'.op = "open" => reconnectAttempts' = 0
        /\ reconnectAttempts' # reconnectAttempts
           => \/ (lastOp'.op = "open" /\ reconnectAttempts' = 0)
              \/ (lastOp'.op = "reconnect" /\ reconnectAttempts' = reconnectAttempts + 1)
        /\ calm => reconnectAttempts = 0
        /\ (calm /\ lastOp'.op = "close" /\ timers' = timers + 1)
           => lastOp'.delay = 1000 ]_vars

\* C26 witness: a socket has opened after twenty reconnect timers had fired, with
\* none pending: the counter is zero again.
C26_Witness ==
    /\ lastOp.op = "open"
    /\ lastOp.was = 20
    /\ reconnectAttempts = 0
    /\ calm
    /\ timers = 0

\* C27: the message listener calls no callback itself: while it processes an event
\* it only adds one task per matching subscription, chosen against the subscription
\* table as it is during the pass, which it does not change; the tasks pending
\* before are still pending, in front of the new ones; a callback runs only as a
\* task of its own, in a later step.
C27_CallbacksAreDeferred ==
    [][ /\ lastOp'.op = "message"
           => ( /\ lastOp'.inline = 0
                /\ subscriptions' = subscriptions
                /\ channels' = channels
                /\ Len(queue') >= Len(queue)
                /\ SubSeq(queue', 1, Len(queue)) = queue
                /\ (lastOp'.frame.type = "event" /\ lastOp'.frame.channels # Missing
                    /\ Range(lastOp'.frame.channels) \cap Range(channels) # {})
                   => Len(Added) = Cardinality({ k \in DOMAIN subscriptions :
                          Range(subscriptions[k]) \cap Range(lastOp'.frame.channels) # {} }) )
        /\ Len(queue') < Len(queue) => lastOp'.op = "callback" ]_vars

\* C27 witness: an event matching both subscriptions has been processed while no
\* task was pending: both callbacks are pending and none has run.
C27_Witness ==
    /\ lastOp.op = "message"
    /\ lastOp.frame.type = "event"
    /\ lastOp.frame.channels = <<"b">>
    /\ lastOp.inline = 0
    /\ Len(queue) = 2
    /\ queue[1].channels = <<"b">>
    /\ queue[2].channels = <<"b">>

\* C28: the tasks one event adds are in ascending handle order (the order in which
\* the subscriptions were inserted), all carry that event's data and go behind the
\* tasks already pending; a callback step runs the oldest pending task and leaves
\* the others in place, and nothing else touches the pending tasks: so every
\* callback of an earlier event runs before any callback of a later event.
C28_DispatchInInsertionOrderFifo ==
    [][ /\ lastOp'.op = "message"
           => ( /\ queue' = queue \o Added
                /\ \A i, j \in 1 .. Len(Added) : i < j => Added[i].h < Added[j].h
                /\ \A i \in 1 .. Len(Added) :
                      /\ lastOp'.frame.type = "event"
                      /\ Added[i].channels = lastOp'.frame.channels
                      /\ Added[i].h \in DOMAIN subscriptions )
        /\ lastOp'.op = "callback"
           => ( /\ queue # <<>>
                /\ lastOp'.h = Head(queue).h
                /\ queue' = Tail(queue) )
        /\ queue' # queue => lastOp'.op \in {"message", "callback"} ]_vars

\* C28 witness: an event on "b" matched both subscriptions, and the callback of
\* the older one (handle 0) has run while that of the newer one is still pending.
C28_Witness ==
    /\ lastOp.op = "callback"
    /\ lastOp.h = 0
    /\ Len(queue) = 1
    /\ queue[1].h = 1
    /\ queue[1].channels = <<"b">>
    /\ {0, 1} \subseteq DOMAIN subscriptions
    /\ Includes(subscriptions[0], "b")

Dropped(h) ==
    { c \in Range(channels) : Includes(closures[h], c) /\ c \notin Listed(subscriptions') }

\* C30: the cleanUp pass of a closure removes from the channel set exactly the
\* channels of the closure's list that are in the set and that no subscription
\* remaining in the table lists; every other channel stays, in its place; no
\* channel is added; the table is the one the delete before the pass left, and a
\* channel of the list that is not in the set is ignored.
C30_CleanUpRemovesExactlyOrphans ==
    [][ lastOp'.op = "unsubscribe"
        => ( /\ Range(channels') = Range(channels) \ Dropped(lastOp'.h)
             /\ channels' = SelectSeq(channels, LAMBDA c : c \notin Dropped(lastOp'.h))
             /\ \A c \in Range(channels) \ Range(channels') :
                   /\ Includes(closures[lastOp'.h], c)
                   /\ \A k \in DOMAIN subscriptions' : ~Includes(subscriptions'[k], c)
             /\ Range(channels') \subseteq Range(channels)
             /\ subscriptions' = Deleted(lastOp'.h)
             /\ closures' = closures ) ]_vars

\* C30 witness: the closure of a subscription to "a" and "b" has run while another
\* subscription still lists "a": "b" is removed, "a" stays.
C30_Witness ==
    /\ lastOp.op = "unsubscribe"
    /\ lastOp.h = 0
    /\ ~lastOp.again
    /\ closures[0] = <<"a", "b">>
    /\ DOMAIN subscriptions = {1}
    /\ subscriptions[1] = <<"a">>
    /\ channels = <<"a">>

\* C31: an 'error' message and a message of a kind the handler does not know
\* schedule no callback and send no frame; every frame that parses becomes the
\* retained last message (its kind, and the code of an error), whatever was retained
\* before; a frame that does not parse, and every step that is not a message, leave
\* the retained message as it is; so the close handler decides on the most recently
\* parsed message: with the flag enabled it schedules a retry when that message is
\* no error, and none when it is an error with code 1008, whatever came earlier.
C31_ErrorsNotDispatchedLastMessageKept ==
    [][ /\ lastOp'.op = "message"
           => ( /\ lastOp'.frame.type \in {"error", "response"}
                   => ( /\ queue' = queue
                        /\ lastOp'.sent = 0
                        /\ lastOp'.inline = 0 )
                /\ lastOp'.frame.type # "garbage"
                   => ( /\ lastMessage'.type = lastOp'.frame.type
                        /\ lastOp'.frame.type = "error"
                           => lastMessage'.code = lastOp'.frame.code )
                /\ lastOp'.frame.type = "garbage" => lastMessage' = lastMessage )
        /\ lastMessage' # lastMessage => lastOp'.op = "message"
        /\ (lastOp'.op = "close" /\ reconnect /\ lastMessage.type # "error")
           => timers' = timers + 1
        /\ (lastOp'.op = "close" /\ lastMessage.type = "error"
                                 /\ lastMessage.code = PolicyViolation)
           => timers' = timers ]_vars

\* C31 witness: an error frame with code 1003 has been processed while a
\* subscription is in the table: it is the retained message and nothing is pending.
C31_Witness ==
    /\ lastOp.op = "message"
    /\ lastOp.frame.type = "error"
    /\ lastOp.frame.code = 1003
    /\ lastMessage.type = "error"
    /\ lastMessage.code = 1003
    /\ DOMAIN subscriptions # {}
    /\ queue = <<>>
    /\ lastOp.sent = 0

\* C32: a subscribe call stores its record under the value of the counter, which
\* is above every handle issued so far, whether its subscription is still in the
\* table or not, and moves the counter up by one; it leaves every record of the
\* table as it is; no other step moves the counter or adds a record; every handle
\* in the table is below the counter and none of them has been unsubscribed.
C32_HandlesFreshAndIncreasing ==
    [][ /\ lastOp'.op = "subscribe"
           => ( /\ lastOp'.h = subscriptionsCounter
                /\ \A k \in (DOMAIN subscriptions) \cup (DOMAIN closures) \cup unsubscribed :
                      k < lastOp'.h
                /\ subscriptionsCounter' = subscriptionsCounter + 1
                /\ DOMAIN subscriptions' = (DOMAIN subscriptions) \cup {lastOp'.h}
                /\ \A k \in DOMAIN subscriptions : subscriptions'[k] = subscriptions[k] )
        /\ lastOp'.op # "subscribe"
           => ( /\ subscriptionsCounter' = subscriptionsCounter
                /\ DOMAIN subscriptions' \subseteq DOMAIN subscriptions )
        /\ \A k \in DOMAIN subscriptions' :
              /\ k < subscriptionsCounter'
              /\ k \notin unsubscribed' ]_vars

\* C32 witness: a subscribe call made after the first subscription was
\* unsubscribed got handle 1, not the freed handle 0.
C32_Witness ==
    /\ lastOp.op = "subscribe"
    /\ lastOp.h = 1
    /\ 0 \in unsubscribed
    /\ DOMAIN subscriptions = {1}
    /\ subscriptionsCounter = 2

\* C33: no socket that createSocket has replaced is CONNECTING or OPEN, so the only
\* socket that can be is the current one; when createSocket opens a socket, the
\* one it replaces (if any) is CLOSING or CLOSED once the step is done: it was so
\* already, or close() has been called on it in that step.
C33_AtMostOneLiveSocket ==
    [][ /\ retired'.live = 0
        /\ (RanCreateSocket /\ socket' # socket /\ socket # NoSocket)
           => ( /\ socket'.readyState = CONNECTING
                /\ \/ socket.readyState = CLOSED /\ retired' = retired
                   \/ socket.readyState = CLOSING
                      /\ retired' = [retired EXCEPT !.byPeer = @ + 1]
                   \/ socket.readyState < CLOSING
                      /\ retired' = [retired EXCEPT !.byUs = @ + 1] ) ]_vars

\* C33 witness: createSocket has replaced two sockets that were CONNECTING or OPEN
\* and the close event of neither has come yet: both are CLOSING by its close()
\* calls, the third socket is the only one CONNECTING.
C33_Witness ==
    /\ lastOp.op \in {"debounce", "reconnect"}
    /\ retired.byUs = 2
    /\ retired.live = 0
    /\ socket # NoSocket
    /\ socket.readyState = CONNECTING

\* the channels named by the 'channels[]' parameters of a URL
UrlChannels(u) == { u[i][2] : i \in Params(u, "channels[]") }

\* C34: when createSocket runs on a non-empty channel set that holds the same
\* channels as at its previous run (the stored URL is the one that run computed or
\* confirmed, so its channel parameters name them), in whatever order they are in
\* the set now, and the current socket is CONNECTING or OPEN, the run reuses the
\* socket: it closes none and opens none.
C34_SameChannelsReuseSocket ==
    [][ ( /\ RanCreateSocket
          /\ ~skipped
          /\ channels # <<>>
          /\ socket # NoSocket
          /\ socket.readyState <= OPEN
          /\ UrlChannels(url) = Range(channels) )
        => ( /\ socket' = socket
             /\ url' = url
             /\ retired' = retired
             /\ reconnect' = reconnect ) ]_vars

\* C35: an error with code 1008 counts against the socket that delivered it only:
\* when a socket opened after it closes without ever having been OPEN (so it has
\* delivered no message), with channels subscribed and the reconnect flag enabled,
\* its close handler schedules a reconnect timer, although the retained message is
\* still that error.
C35_PolicyErrorBoundToItsSocket ==
    [][ ( /\ lastOp'.op = "close"
          /\ lastOp'.sock = "current"
          /\ socket.readyState = CONNECTING
          /\ channels # <<>>
          /\ reconnect
          /\ Policy )
        => timers' = timers + 1 ]_vars

\* C36: subscribe and the closure always arm the debounce timer; when it fires on
\* a non-empty channel set and finds the current socket CLOSED (as it is after a
\* policy-violation close, which scheduled no retry), createSocket opens a new
\* socket to the computed URL, also when that URL is the stored one, and closes
\* nothing.
C36_ResubscribeReopensAfterPolicyClose ==
    [][ /\ lastOp'.op \in {"subscribe", "unsubscribe"} => timeout'
        /\ ( /\ lastOp'.op = "debounce"
              /\ channels # <<>>
              /\ socket # NoSocket
              /\ socket.readyState = CLOSED )
           => ( /\ socket' = [url |-> ComputeUrl(channels), readyState |-> CONNECTING]
                /\ url' = ComputeUrl(channels)
                /\ retired' = retired
                /\ reconnect' = reconnect ) ]_vars

\* C36 witness: with the 1008 error retained and no reconnect timer pending, the
\* debounce timer has found the socket CLOSED and the URL unchanged, and a new
\* socket is CONNECTING.
C36_Witness ==
    /\ lastOp.op = "debounce"
    /\ lastOp.found = CLOSED
    /\ lastOp.same
    /\ Policy
    /\ timers = 0
    /\ reconnectAttempts = 0
    /\ channels # <<>>
    /\ socket # NoSocket
    /\ socket.readyState = CONNECTING
    /\ socket.url = url

\* C37: when a call has settled, a failing response (status 404 or 500) has made
\* it throw an AppwriteException whose code is the status, whose type is the error
\* type tag and whose response is the body; a request that got no response has
\* made it throw; a response with status 200 has made it return the decoded body.
C37_FailuresAreTypedExceptions ==
    lastOp.op = "settle"
    => ( /\ lastOp.http.status \in FailingStatuses
            => ( /\ lastOp.http.threw
                 /\ lastOp.http.exception.code = lastOp.http.status
                 /\ lastOp.http.exception.type = ErrorType(lastOp.http.status)
                 /\ lastOp.http.exception.response = Data(lastOp.http.status) )
         /\ lastOp.http.status = 0 => lastOp.http.threw
         /\ lastOp.http.status = OkStatus
            => ( /\ ~lastOp.http.threw
                 /\ lastOp.http.value = Data(OkStatus) ) )

\* C38: the stored URL is the URL the current socket was opened with, and it is
\* the empty string exactly when there is no socket (none has been created yet: a
\* socket reference is never cleared); the stored URL changes only in a step of
\* createSocket that also stores a new socket, and a step that stores a new socket
\* stores the URL computed from the channel set with it.
C38_StoredUrlIsSocketUrl ==
    [][ /\ (socket' = NoSocket) = (url' = EmptyUrl)
        /\ socket' # NoSocket => socket'.url = url'
        /\ socket # NoSocket => socket' # NoSocket
        /\ url' # url
           => ( /\ RanCreateSocket
                /\ socket' # socket
                /\ socket'.readyState = CONNECTING )
        /\ (RanCreateSocket /\ socket' # socket)
           => ( /\ url' = ComputeUrl(channels)
                /\ socket' = [url |-> url', readyState |-> CONNECTING] ) ]_vars

\* C38 witness: the debounce timer has found an OPEN socket and a changed URL:
\* the socket has been replaced and the stored URL is that of the new socket.
C38_Witness ==
    /\ lastOp.op = "debounce"
    /\ lastOp.found = OPEN
    /\ ~lastOp.same
    /\ socket # NoSocket
    /\ socket.readyState = CONNECTING
    /\ socket.url = url
    /\ url = ComputeUrl(channels)
    /\ retired.byUs = 1

====
